---- MODULE Spec2Model ----
(***************************************************************************)
(* A model of src/application.py: a Flask application with two views,      *)
(* index ("/") and static_proxy ("/<path:path>"), both delegating to       *)
(* send_from_directory("templates", ...), plus the static view that        *)
(* Flask(__name__, static_folder="static") registers by itself.            *)
(*                                                                         *)
(* A path string is the sequence of its components as split("/") gives     *)
(* them: "css/site.css" is <<"css", "site.css">>, "" is <<"">>,            *)
(* "/app/x" is <<"", "app", "x">>.  A location on disk is the sequence of  *)
(* names from the filesystem root.  The platform is POSIX ("/" is the only *)
(* separator) and the disk holds no symbolic links.  Requests are plain    *)
(* GETs without conditional or range headers.                              *)
(*                                                                         *)
(* Every record is written with its fields in the order TLC keeps them     *)
(* (the order in which the names first occur in the module).               *)
(***************************************************************************)
EXTENDS Integers, Sequences, FiniteSets, TLC

\* Files whose content varies hold the bytes 1..n for some n in 1..MaxLen.
MaxLen == 2

\* The worker threads of the hosting runtime that handle requests.
Threads == {"w1", "w2"}

VARIABLES
    disk,      \* the varying files: location -> node
    pc,        \* per thread: "idle", "checked" (isfile passed), "done"
    req,       \* per thread: the request being handled
    path_str,  \* per thread: the local path_str of send_from_directory
    resp,      \* per thread: the response produced
    dirty      \* per thread: the disk changed while the request was handled

vars == <<disk, pc, req, path_str, resp, dirty>>

----------------------------------------------------------------------------
(* Path strings (posixpath)                                                *)

Last(s) == s[Len(s)]
Front(s) == SubSeq(s, 1, Len(s) - 1)

\* str.startswith("/")
IsAbs(p) == Len(p) >= 2 /\ p[1] = ""

\* posixpath.join(a, b)
Join(a, b) ==
    IF IsAbs(b) THEN b
    ELSE IF Last(a) = "" THEN Front(a) \o b
    ELSE a \o b

\* the loop of posixpath.normpath over the components, new_comps = acc
RECURSIVE NormComps(_, _, _)
NormComps(comps, acc, abs) ==
    IF comps = <<>> THEN acc
    ELSE LET c == Head(comps) IN
         IF c = "" \/ c = "." THEN NormComps(Tail(comps), acc, abs)
         ELSE IF c # ".."
                 \/ (~abs /\ acc = <<>>)
                 \/ (acc # <<>> /\ Last(acc) = "..")
              THEN NormComps(Tail(comps), Append(acc, c), abs)
         ELSE IF acc # <<>> THEN NormComps(Tail(comps), Front(acc), abs)
         ELSE NormComps(Tail(comps), acc, abs)

\* posixpath.normpath(p)
NormPath(p) ==
    IF p = <<"">> THEN <<".">>
    ELSE LET abs   == IsAbs(p)
             two   == abs /\ Len(p) >= 3 /\ p[2] = ""
                      /\ ~(Len(p) >= 4 /\ p[3] = "")
             comps == NormComps(p, <<>>, abs)
         IN  IF abs
             THEN (IF two THEN <<"", "">> ELSE <<"">>)
                  \o (IF comps = <<>> THEN <<"">> ELSE comps)
             ELSE IF comps = <<>> THEN <<".">> ELSE comps

\* werkzeug.security.safe_join(directory, filename), one untrusted filename
safe_join_unguarded(directory, filename) ==
    [ok |-> TRUE, path |-> Join(directory, filename)]

safe_join(directory, filename) ==
    LET fn == IF filename # <<"">> THEN NormPath(filename) ELSE filename IN
    IF IsAbs(fn) \/ fn = <<"..">> \/ (Len(fn) >= 2 /\ fn[1] = "..")
    THEN [ok |-> FALSE, path |-> <<"">>]
    ELSE [ok |-> TRUE, path |-> Join(directory, fn)]

----------------------------------------------------------------------------
(* The disk                                                                *)

Absent == [bytes |-> <<>>, kind |-> "absent", readable |-> FALSE]
Dir == [bytes |-> <<>>, kind |-> "dir", readable |-> TRUE]
File(b) == [bytes |-> b, kind |-> "file", readable |-> TRUE]
Denied == [bytes |-> <<>>, kind |-> "file", readable |-> FALSE]

\* app.root_path: the directory of application.py
root_path == <<"", "app">>
RootLoc == <<"app">>
\* the directory both views pass to send_from_directory
templates == <<"templates">>
AssetRootLoc == <<"app", "templates">>
\* Flask(__name__, static_folder="static"): app.static_folder is absolute
static_folder == Join(root_path, <<"static">>)
StaticLoc == <<"app", "static">>

Dirs == {<<>>, RootLoc, AssetRootLoc, AssetRootLoc \o <<"css">>,
         AssetRootLoc \o <<"static">>, StaticLoc}

AppHtmlLoc == AssetRootLoc \o <<"app.html">>
SiteCssLoc == AssetRootLoc \o <<"css", "site.css">>
StaticCssLoc == StaticLoc \o <<"site.css">>
\* the files that come and go, lose their read permission, or are rewritten
VarFiles == {AppHtmlLoc, SiteCssLoc, StaticCssLoc}

SecretLoc == RootLoc \o <<"secret.txt">>
ShadowCssLoc == AssetRootLoc \o <<"static", "site.css">>
LicenseLoc == AssetRootLoc \o <<"LICENSE">>
\* files that stay as they are
FixedFiles == {SecretLoc, ShadowCssLoc, LicenseLoc}
FixedBytes(loc) ==
    IF loc = SecretLoc THEN <<9>> ELSE IF loc = ShadowCssLoc THEN <<7>> ELSE <<8>>

Contents == {[i \in 1..n |-> i] : n \in 1..MaxLen}
Nodes == {Absent, Denied} \cup {File(b) : b \in Contents}

NodeAt(d, loc) ==
    IF loc \in Dirs THEN Dir
    ELSE IF loc \in FixedFiles THEN File(FixedBytes(loc))
    ELSE IF loc \in VarFiles THEN d[loc]
    ELSE Absent

\* path resolution by the operating system: the location a path names
RECURSIVE Walk(_, _, _)
Walk(d, loc, comps) ==
    IF comps = <<>> THEN [loc |-> loc, node |-> NodeAt(d, loc)]
    ELSE IF NodeAt(d, loc).kind # "dir" THEN [loc |-> loc, node |-> Absent]
    ELSE LET c == Head(comps) IN
         IF c = "" \/ c = "." THEN Walk(d, loc, Tail(comps))
         ELSE IF c = ".."
              THEN Walk(d, IF loc = <<>> THEN loc ELSE Front(loc), Tail(comps))
         ELSE Walk(d, Append(loc, c), Tail(comps))

Lookup(d, p) == Walk(d, <<>>, p)

\* os.path.isfile(p)
exists(d, p) == Lookup(d, p).node.kind # "absent"

isfile(d, p) == Lookup(d, p).node.kind = "file"

IsPrefix(a, b) == Len(a) <= Len(b) /\ SubSeq(b, 1, Len(a)) = a

----------------------------------------------------------------------------
(* Responses                                                               *)

\* a response: status, the file bytes its body carries, its content type
Response(status, body, mimetype) ==
    [status |-> status, body |-> body, mimetype |-> mimetype]

\* werkzeug.exceptions.NotFound, rendered by Flask (an error page, no file bytes)
NotFound == Response(404, <<>>, "text/html")
\* an exception that leaves the view: Flask answers 500
InternalServerError == Response(500, <<>>, "text/html")
\* 304 Not Modified (only a conditional request gets it)
NotModified == Response(304, <<>>, "")
NoResp == Response(0, <<>>, "")

\* os.path.splitext(name)[1], over the names of the model
Ext(name) ==
    CASE name = "app.html" -> ".html"
      [] name = "site.css" -> ".css"
      [] name = "secret.txt" -> ".txt"
      [] name = "missing.js" -> ".js"
      [] OTHER -> ""

\* mimetypes.guess_type(name)[0] or "application/octet-stream"
guess_type_html(name) == "text/html"

guess_type(name) ==
    CASE Ext(name) = ".html" -> "text/html"
      [] Ext(name) = ".css" -> "text/css"
      [] Ext(name) = ".txt" -> "text/plain"
      [] Ext(name) = ".js" -> "text/javascript"
      [] OTHER -> "application/octet-stream"

\* open(path, "rb"): the disk after the call and what the path names
open_wb(d, p) ==
    LET at == Lookup(d, p) IN
    [disk |-> IF at.loc \in VarFiles /\ at.node.kind = "file" /\ at.node.readable
              THEN [d EXCEPT ![at.loc] = File(<<>>)] ELSE d,
     at |-> at]

open_rb(d, p) == [disk |-> d, at |-> Lookup(d, p)]

\* werkzeug.utils.send_file(path): stat, open and read the file
send_file_truncated(d, p) ==
    LET n == open_rb(d, p).at.node IN
    IF n.kind = "file" /\ n.readable
    THEN Response(200, SubSeq(n.bytes, 1, 1), guess_type(Last(p)))
    ELSE InternalServerError

send_file_not_modified(d, p) ==
    LET n == open_rb(d, p).at.node IN
    IF \E u \in Threads : pc[u] = "done" /\ path_str[u] = p /\ resp[u].status = 200
    THEN NotModified
    ELSE IF n.kind = "file" /\ n.readable
    THEN Response(200, n.bytes, guess_type(Last(p)))
    ELSE InternalServerError

send_file_swallow(d, p) ==
    LET n == open_rb(d, p).at.node IN
    IF n.kind = "file" /\ n.readable
    THEN Response(200, n.bytes, guess_type(Last(p)))
    ELSE NotFound

send_file(d, p) ==
    LET n == open_rb(d, p).at.node IN
    IF n.kind = "file" /\ n.readable
    THEN Response(200, n.bytes, guess_type(Last(p)))
    ELSE InternalServerError

----------------------------------------------------------------------------
(* The views and the URL map                                               *)

\* index(): send_from_directory("templates", "app.html")
index_html == [directory |-> templates, path |-> <<"index.html">>]

index == [directory |-> templates, path |-> <<"app.html">>]

\* static_proxy(path): send_from_directory("templates", path)
static_proxy(path) == [directory |-> templates, path |-> path]

\* Flask.send_static_file(filename), the view of /static/<path:filename>
send_static_file(filename) == [directory |-> static_folder, path |-> filename]

ViewCall(endpoint, arg) ==
    CASE endpoint = "index" -> index
      [] endpoint = "static_proxy" -> static_proxy(arg)
      [] endpoint = "static" -> send_static_file(arg)

\* app.url_map: the rule a URL matches (u is the URL without its first "/");
\* a rule with a static prefix is tried before the catch-all
Route_catch_all(u) ==
    IF u = <<"">> THEN [endpoint |-> "index", arg |-> <<"">>]
    ELSE IF u[1] # "" THEN [endpoint |-> "static_proxy", arg |-> u]
    ELSE [endpoint |-> "none", arg |-> u]

Route(u) ==
    IF u = <<"">> THEN [endpoint |-> "index", arg |-> <<"">>]
    ELSE IF Len(u) >= 2 /\ u[1] = "static" /\ u[2] # ""
         THEN [endpoint |-> "static", arg |-> Tail(u)]
    ELSE IF u[1] # "" THEN [endpoint |-> "static_proxy", arg |-> u]
    ELSE [endpoint |-> "none", arg |-> u]

\* flask.send_from_directory, up to the isfile check: the path it will send
Resolve(call) ==
    LET sj == safe_join(call.directory, call.path) IN
    [ok |-> sj.ok, path |-> Join(root_path, sj.path)]

\* flask.send_from_directory(directory, path) as one call on disk d
send_from_directory(d, call) ==
    LET r == Resolve(call) IN
    IF ~r.ok THEN NotFound
    ELSE IF ~isfile(d, r.path) THEN NotFound
    ELSE send_file(d, r.path)

----------------------------------------------------------------------------
(* Requests                                                                *)

\* the URLs requested (without the first "/")
Urls == {
    <<"">>,
    <<"app.html">>,
    <<"css", "site.css">>,
    <<"missing.js">>,
    <<"css">>,
    <<"LICENSE">>,
    <<"..", "secret.txt">>,
    <<"css", "..", "..", "secret.txt">>,
    <<"css", "..", "app.html">>,
    <<"nodir", "..", "app.html">>,
    <<"static", "site.css">>,
    <<"static", "..", "secret.txt">> }

\* the paths static_proxy is called with directly, not through the URL map
CallPaths == { <<"", "app", "secret.txt">>, <<"static", "site.css">> }

NoReq == [endpoint |-> "none", arg |-> <<>>, url |-> <<>>, via |-> "none"]

\* the path_str a handler thread works on: a local of its own call
SharedPathStr(t) ==
    IF \E u \in Threads : u # t /\ pc[u] = "checked"
    THEN path_str[CHOOSE u \in Threads : u # t /\ pc[u] = "checked"]
    ELSE path_str[t]

LocalPathStr(t) == path_str[t]

Init ==
    /\ disk \in [VarFiles -> Nodes]
    /\ pc = [t \in Threads |-> "idle"]
    /\ req = [t \in Threads |-> NoReq]
    /\ path_str = [t \in Threads |-> <<>>]
    /\ resp = [t \in Threads |-> NoResp]
    /\ dirty = [t \in Threads |-> FALSE]

\* a thread takes a request: the view runs send_from_directory up to isfile
Begin(t, r) ==
    /\ pc[t] = "idle"
    /\ req' = [req EXCEPT ![t] = r]
    /\ IF r.endpoint = "none"
       THEN /\ pc' = [pc EXCEPT ![t] = "done"]
            /\ resp' = [resp EXCEPT ![t] = NotFound]
            /\ UNCHANGED path_str
       ELSE LET res == Resolve(ViewCall(r.endpoint, r.arg)) IN
            IF res.ok /\ isfile(disk, res.path)
            THEN /\ pc' = [pc EXCEPT ![t] = "checked"]
                 /\ path_str' = [path_str EXCEPT ![t] = res.path]
                 /\ UNCHANGED resp
            ELSE /\ pc' = [pc EXCEPT ![t] = "done"]
                 /\ path_str' = [path_str EXCEPT ![t] =
                                    IF res.ok THEN res.path ELSE <<>>]
                 /\ resp' = [resp EXCEPT ![t] = NotFound]
    /\ UNCHANGED <<disk, dirty>>

\* GET /u, dispatched by the URL map
Get(t, u) ==
    LET m == Route(u) IN
    Begin(t, [endpoint |-> m.endpoint, arg |-> m.arg, url |-> u, via |-> "http"])

\* static_proxy(p) called directly
Invoke(t, p) ==
    Begin(t, [endpoint |-> "static_proxy", arg |-> p, url |-> p, via |-> "call"])

\* send_file: the thread opens and reads the file it checked
Send(t) ==
    /\ pc[t] = "checked"
    /\ resp' = [resp EXCEPT ![t] = send_file(disk, LocalPathStr(t))]
    /\ disk' = open_rb(disk, LocalPathStr(t)).disk
    /\ pc' = [pc EXCEPT ![t] = "done"]
    /\ UNCHANGED <<req, path_str, dirty>>

\* the response has gone out; the thread is free again
Close(t) ==
    /\ pc[t] = "done"
    /\ pc' = [pc EXCEPT ![t] = "idle"]
    /\ req' = [req EXCEPT ![t] = NoReq]
    /\ path_str' = [path_str EXCEPT ![t] = <<>>]
    /\ resp' = [resp EXCEPT ![t] = NoResp]
    /\ dirty' = [dirty EXCEPT ![t] = FALSE]
    /\ UNCHANGED disk

\* something outside the program changes a file
FsChange(loc, n) ==
    /\ disk[loc] # n
    /\ disk' = [disk EXCEPT ![loc] = n]
    /\ dirty' = [t \in Threads |-> pc[t] # "idle"]
    /\ UNCHANGED <<pc, req, path_str, resp>>

Next ==
    \/ \E t \in Threads, u \in Urls : Get(t, u)
    \/ \E t \in Threads, p \in CallPaths : Invoke(t, p)
    \/ \E t \in Threads : Send(t)
    \/ \E t \in Threads : Close(t)
    \/ \E loc \in VarFiles, n \in Nodes : FsChange(loc, n)

Spec == Init /\ [][Next]_vars

----------------------------------------------------------------------------
(* Vocabulary of the properties                                            *)

Done(t) == pc[t] = "done"
\* the request was handled on the disk as it is now
Stable(t) == Done(t) /\ ~dirty[t]
ByProxy(t) == req[t].endpoint = "static_proxy"
ByIndex(t) == req[t].endpoint = "index"
ByHttp(t) == req[t].via = "http"

HasDotDot(p) == \E i \in 1..Len(p) : p[i] = ".."
\* a valid relative path: names only
Plain(p) == \A i \in 1..Len(p) : (p[i] # "" /\ p[i] # "." /\ p[i] # "..")

\* the place a relative path names below a directory, dot segments removed one
\* by one; inside is FALSE when a ".." climbs above the directory
RECURSIVE Reduce(_, _)
Reduce(p, acc) ==
    IF p = <<>> THEN [inside |-> TRUE, rel |-> acc]
    ELSE IF (Head(p) = "" \/ Head(p) = ".") THEN Reduce(Tail(p), acc)
    ELSE IF Head(p) = ".."
         THEN (IF acc = <<>> THEN [inside |-> FALSE, rel |-> <<>>]
               ELSE Reduce(Tail(p), Front(acc)))
    ELSE Reduce(Tail(p), Append(acc, Head(p)))

Target(p) == IF IsAbs(p) THEN [inside |-> FALSE, rel |-> <<>>] ELSE Reduce(p, <<>>)

\* the path a request asks the Asset Root for
Asked(t) == IF ByIndex(t) THEN <<"app.html">> ELSE req[t].arg

\* the node the asked path names under the Asset Root, Absent if it leaves it
AssetNode(t) ==
    IF Target(Asked(t)).inside
    THEN NodeAt(disk, AssetRootLoc \o Target(Asked(t)).rel)
    ELSE Absent

\* the location of the file a thread's response was read from
Opened(t) == Lookup(disk, path_str[t]).loc
Within(dir, loc) == IsPrefix(dir, loc) /\ loc # dir

\* C1 as claimed: a static_proxy request whose path has a ".." segment or is
\* absolute ends in a not-found failure.
C1_Original ==
    \A t \in Threads :
        Done(t) /\ ByProxy(t) /\ (HasDotDot(req[t].arg) \/ IsAbs(req[t].arg))
        => resp[t].status = 404

\* C1 (amended): a static_proxy request whose path has a ".." segment or is
\* absolute never carries bytes read outside the Asset Root; it ends in a
\* not-found failure when the path is absolute or climbs above the root, and
\* carries file bytes only with a success read from inside the root.
C1_TraversalSafe ==
    \A t \in Threads :
        Done(t) /\ ByProxy(t) /\ (HasDotDot(req[t].arg) \/ IsAbs(req[t].arg))
        => /\ resp[t].status = 200 => Within(AssetRootLoc, Opened(t))
           /\ resp[t].status # 200 => resp[t].body = <<>>
           /\ resp[t].body # FixedBytes(SecretLoc)
           /\ ~Target(req[t].arg).inside => resp[t] = NotFound

C1_Witness ==
    \E t, u \in Threads :
        /\ Done(t) /\ ByProxy(t) /\ req[t].arg = <<"..", "secret.txt">>
        /\ resp[t].status = 404
        /\ Done(u) /\ ByProxy(u) /\ req[u].arg = <<"css", "..", "app.html">>
        /\ resp[u].status = 200

\* C2 as claimed: static_proxy(p), p a valid relative path naming an existing
\* regular file under the Asset Root, succeeds with exactly the file's bytes.
C2_Original ==
    \A t \in Threads :
        Stable(t) /\ ByProxy(t) /\ Plain(req[t].arg)
        /\ NodeAt(disk, AssetRootLoc \o req[t].arg).kind = "file"
        => /\ resp[t].status = 200
           /\ resp[t].body = NodeAt(disk, AssetRootLoc \o req[t].arg).bytes

\* C2 (amended): static_proxy(p), p a valid relative path naming an existing
\* regular file under the Asset Root that the server may read, succeeds with
\* exactly the file's bytes.
C2_RoundTrip ==
    \A t \in Threads :
        Stable(t) /\ ByProxy(t) /\ Plain(req[t].arg)
        /\ NodeAt(disk, AssetRootLoc \o req[t].arg).kind = "file"
        /\ NodeAt(disk, AssetRootLoc \o req[t].arg).readable
        => /\ resp[t].status = 200
           /\ resp[t].body = NodeAt(disk, AssetRootLoc \o req[t].arg).bytes

C2_Witness ==
    \E t \in Threads :
        /\ Stable(t) /\ ByProxy(t) /\ req[t].arg = <<"css", "site.css">>
        /\ disk[SiteCssLoc] = File(<<1, 2>>)
        /\ resp[t].status = 200 /\ resp[t].body = <<1, 2>>

\* C3: static_proxy(p) with p not naming an existing regular file under the
\* Asset Root (missing, a directory, or outside it), and index() with app.html
\* absent, fail with NotFound and carry no file bytes.
C3_NotFound ==
    \A t \in Threads :
        Stable(t) /\ (ByProxy(t) \/ ByIndex(t)) /\ AssetNode(t).kind # "file"
        => resp[t] = NotFound

C3_Witness ==
    \E t, u \in Threads :
        /\ Stable(t) /\ ByProxy(t) /\ req[t].arg = <<"css">>
        /\ resp[t] = NotFound
        /\ Stable(u) /\ ByIndex(u) /\ disk[AppHtmlLoc] = Absent
        /\ resp[u] = NotFound

C5_IndexIsAppHtml ==
    \A t, u \in Threads :
        Stable(t) /\ Stable(u) /\ ByHttp(t) /\ ByHttp(u)
        /\ req[t].url = <<"">> /\ req[u].url = <<"app.html">>
        /\ NodeAt(disk, AppHtmlLoc).kind = "file"
        => resp[t] = resp[u]

C5_Witness ==
    \E t, u \in Threads :
        /\ Stable(t) /\ Stable(u) /\ ByHttp(t) /\ ByHttp(u)
        /\ req[t].url = <<"">> /\ req[u].url = <<"app.html">>
        /\ resp[t].status = 200 /\ resp[u].status = 200

\* C6: two calls with the same input and no change of the disk between them
\* get the same status, body and content type.
C6_Idempotent ==
    \A t, u \in Threads :
        Stable(t) /\ Stable(u) /\ req[t] = req[u] => resp[t] = resp[u]

C6_Witness ==
    \E t, u \in Threads :
        /\ t # u /\ Stable(t) /\ Stable(u) /\ req[t] = req[u]
        /\ ByProxy(t) /\ resp[t].status = 200

\* C7: a successful index() is text/html; a successful static_proxy(p) has the
\* type of p's extension, application/octet-stream when it has none.
C7_ContentType ==
    \A t \in Threads :
        Stable(t) /\ resp[t].status = 200
        => /\ ByIndex(t) => resp[t].mimetype = "text/html"
           /\ ByProxy(t) =>
                LET name == Last(Target(req[t].arg).rel) IN
                /\ name = "app.html" => resp[t].mimetype = "text/html"
                /\ name = "site.css" => resp[t].mimetype = "text/css"
                /\ name = "LICENSE" => resp[t].mimetype = "application/octet-stream"

C7_Witness ==
    \E t, u \in Threads :
        /\ Stable(t) /\ ByProxy(t) /\ req[t].arg = <<"css", "site.css">>
        /\ resp[t].status = 200 /\ resp[t].mimetype = "text/css"
        /\ Stable(u) /\ ByProxy(u) /\ req[u].arg = <<"LICENSE">>
        /\ resp[u].status = 200

C9_ReadOnly ==
    [][pc' # pc => disk' = disk]_vars

C9_Witness ==
    \E t, u \in Threads :
        /\ Done(t) /\ resp[t].status = 200
        /\ Done(u) /\ resp[u].status = 404

\* C10: whatever the other thread does, a request handled on an unchanging
\* disk gets the response the same call gives when made alone.
C10_Independent ==
    \A t \in Threads :
        Stable(t) /\ req[t].endpoint # "none"
        => resp[t] = send_from_directory(disk, ViewCall(req[t].endpoint, req[t].arg))

C10_Witness ==
    \E t, u \in Threads :
        /\ Stable(t) /\ resp[t].status = 200
        /\ pc[u] = "checked" /\ req[u] # req[t] /\ path_str[u] # path_str[t]

====
